---- MODULE Spec2Model ----
(***************************************************************************)
(* Model of team-balancer: the balancer of core.py                         *)
(* (balancear_equipos_greedy_swaps), the roster callbacks of app.py, the   *)
(* SQLite persistence of core_db.py with its backup files, and             *)
(* _sanitizar_nombre of core.py.                                           *)
(*                                                                         *)
(* Scores are integers in the model, so every float operation of the code  *)
(* (sums, differences, statistics.pvariance) is exact on them.             *)
(***************************************************************************)
EXTENDS Integers, Sequences, FiniteSets, TLC

\* ------------------------------------------------------------------ bounds
MaxPlayers == 6      \* longest roster handed to the balancer
MaxTeamSize == 3     \* largest n_jugadores
MaxIters == 2        \* largest explicit max_iters
DEFAULT_MAX_ITERS == 2000   \* core.py:84, max_iters: int = 2000
ScoreValues == {0, 2, 3}    \* the Score values a player may carry
MaxRoster == 2       \* longest session roster built through the UI
NumWriters == 3      \* threads saving concurrently
MaxRecords == 3      \* longest list saved or migrated in one call
NAME_MAX == 48       \* core.py:24, s[:48]
MAX_BACKUPS == 5     \* core_db.py:12, the default of the environment variable
MaxClock == 7        \* seconds the clock runs through while backups are made
MaxGap == 2          \* longest run of whitespace in a name given to _sanitizar_nombre
MaxTail == 2         \* longest second word of such a name
NearLimit == 2       \* how far from 48 characters its first word may be
NIVEL_MAX == 350     \* app.py:144
KD_MAX == 100        \* app.py:144, 10.0 in tenths

\* ------------------------------------------------------------------ state
VARIABLES
    \* balancear_equipos_greedy_swaps: parameters, locals, program counter
    lista_jugadores, n_jugadores, max_iters,
    num_equipos, ordenados, equipos, equipos_sums, reservas, best_var,
    gi,        \* position of the greedy loop in ordenados[: num_equipos * n_jugadores]
    it,        \* iterations of the refinement loop already run
    pc,        \* "start" | "greedy" | "refine" | "done" | "raised"
    ret,       \* the returned pair <<equipos, reservas>> once pc = "done"
    fase1,     \* history: equipos as the greedy loop left it
    \* the SQLite file of core_db.py
    db_exists, \* os.path.exists(db_path)
    db_rows,   \* table jugadores: its committed rows in rowid order
    db_lock,   \* the writer holding the write lock, 0 when free
    \* the Streamlit session of app.py
    jugadores, \* st.session_state.jugadores
    \* threads inside guardar_datos_db (test_concurrency_sqlite.py)
    wpc,       \* per writer: "init" | "backup" | "begin" | "replace" | "commit"
               \*             | "done" | "failed"
    wlista,    \* per writer: the list it saves
    wi,        \* per writer: position of its for loop in the list
    wtx,       \* per writer: the table as its open transaction sees it
    \* one caller saving or migrating, then loading (test_io_and_db.py)
    io_pc,     \* "off" | "start" | "saved" | "migrated" | "saved_loaded"
               \*       | "migrated_loaded"
    records,   \* the list given to guardar_datos_db, or the rows of the CSV
    csv_exists,\* os.path.exists(csv_path)
    mig_ret,   \* what migrate_csv_to_sqlite returned
    loaded,    \* what cargar_datos_db returned
    \* the backup files of guardar_datos_db and the clock they are named by
    now,       \* the clock, in whole seconds (the resolution of the file names)
    db_mtime,  \* os.path.getmtime(db_path)
    bak_files, \* the files <db_path>.bak.<ts>: a set of [name, mtime]
    bak_removed, \* history: a rotation has removed a backup file
    \* a caller of _sanitizar_nombre
    san_pc,    \* "off" | "input" | "once" | "twice"
    nombre_in, \* the string given
    limpio,    \* _sanitizar_nombre(nombre)
    limpio2    \* _sanitizar_nombre(limpio)

balVars == <<lista_jugadores, n_jugadores, max_iters, num_equipos, ordenados,
             equipos, equipos_sums, reservas, best_var, gi, it, pc, ret, fase1>>

dbVars == <<db_exists, db_rows, db_lock>>

uiVars == <<jugadores>>

wVars == <<wpc, wlista, wi, wtx>>

ioVars == <<io_pc, records, csv_exists, mig_ret, loaded>>

bakVars == <<now, db_mtime, bak_files, bak_removed>>

sanVars == <<san_pc, nombre_in, limpio, limpio2>>

vars == <<balVars, dbVars, uiVars, wVars, ioVars, bakVars, sanVars>>

notBal == <<dbVars, uiVars, wVars, ioVars, bakVars, sanVars>>

\* ---------------------------------------------------------------- helpers
RECURSIVE SumSeq(_)
SumSeq(s) == IF s = <<>> THEN 0 ELSE Head(s) + SumSeq(Tail(s))

RECURSIVE Flatten(_)
Flatten(ss) == IF ss = <<>> THEN <<>> ELSE Head(ss) \o Flatten(Tail(ss))

\* dict.get(key, default)
Get(p, key, default) == IF key \in DOMAIN p THEN p[key] ELSE default

\* x.get("Score", 0.0)
ScoreOf(p) == Get(p, "Score", 0)

\* the sort without reverse=True (ascending)
InsertAsc(s, p) ==
    LET n == Cardinality({i \in DOMAIN s : ScoreOf(s[i]) <= ScoreOf(p)})
    IN  SubSeq(s, 1, n) \o <<p>> \o SubSeq(s, n + 1, Len(s))

\* a descending sort that is not stable: a player goes in front of its equals
InsertDescBeforeTies(s, p) ==
    LET n == Cardinality({i \in DOMAIN s : ScoreOf(s[i]) > ScoreOf(p)})
    IN  SubSeq(s, 1, n) \o <<p>> \o SubSeq(s, n + 1, Len(s))

\* sorted(lista, key=Score, reverse=True): stable, so players of equal Score
\* keep their input order. Built by inserting each player, in input order,
\* behind every player whose Score is greater than or equal to its own.
InsertDesc(s, p) ==
    LET n == Cardinality({i \in DOMAIN s : ScoreOf(s[i]) >= ScoreOf(p)})
    IN  SubSeq(s, 1, n) \o <<p>> \o SubSeq(s, n + 1, Len(s))

RECURSIVE SortedByScoreDesc(_)
SortedByScoreDesc(s) ==
    IF s = <<>> THEN <<>>
    ELSE InsertDesc(SortedByScoreDesc(SubSeq(s, 1, Len(s) - 1)), s[Len(s)])

\* variance_of_sums: statistics.pvariance(sums) = SUM (x - mean)^2 / n, kept
\* here as the integer n^2 * pvariance = n * SUM x^2 - (SUM x)^2. Every
\* comparison of the code is between two vectors of the same length n.
variance_of_sums(sums) ==
    IF Len(sums) > 0
    THEN Len(sums) * SumSeq([i \in DOMAIN sums |-> sums[i] * sums[i]])
         - SumSeq(sums) * SumSeq(sums)
    ELSE 0

\* candidatos = [i for i in range(num_equipos) if len(equipos[i]) < n_jugadores]
candidatos(eqs, k) == {i \in DOMAIN eqs : Len(eqs[i]) < k}

\* a min() that keeps the last minimum
MinIdxLast(cands, sums) ==
    CHOOSE i \in cands :
        /\ \A j \in cands : sums[i] <= sums[j]
        /\ \A j \in cands : sums[j] = sums[i] => i >= j

\* min(candidatos, key=lambda i: equipos_sums[i]): the first minimum
MinIdx(cands, sums) ==
    CHOOSE i \in cands :
        /\ \A j \in cands : sums[i] <= sums[j]
        /\ \A j \in cands : sums[j] = sums[i] => i <= j

\* the comparison turned round
AcceptWorse(new_var, best) == new_var > best

\* a loop that runs once more than its budget
InRangeInclusive(i, n) == i <= n

\* for _ in range(max_iters): the loop body runs while i < max_iters, i being
\* the number of iterations already run
InRange(i, n) == i < n

\* a comparison that also takes a swap of equal variance
AcceptOrEqual(new_var, best) == new_var <= best

\* if new_var < best_var
Accept(new_var, best) == new_var < best

\* a swap that is not carried out
SwapMembersNone(eqs, a, ia, b, ib) == eqs

\* a swap that writes one side only
SwapMembersOneSide(eqs, a, ia, b, ib) ==
    [eqs EXCEPT ![a][ia] = eqs[b][ib]]

\* equipos[a][ia], equipos[b][ib] = equipos[b][ib], equipos[a][ia]
SwapMembers(eqs, a, ia, b, ib) ==
    [eqs EXCEPT ![a][ia] = eqs[b][ib], ![b][ib] = eqs[a][ia]]

\* an early return that drops the roster
ZeroTeamsResultEmpty(lista) == << <<>>, <<>> >>

\* the early return of the zero-team case: return [], list(lista_jugadores)
ZeroTeamsResult(lista) == << <<>>, lista >>

\* ------------------------------------------------------------------- Init
\* A player is a dict; its Gamertag is its position in the roster. A player
\* drawn with Score 0 is a dict without the key Score, which every read of the
\* balancer, x.get("Score", 0.0), takes for 0.
RostersOfLen(n) ==
    {[i \in 1..n |-> IF f[i] = 0 THEN [Gamertag |-> i]
                                  ELSE [Gamertag |-> i, Score |-> f[i]]] :
        f \in [1..n -> ScoreValues]}

Rosters == UNION {RostersOfLen(n) : n \in 0..MaxPlayers}

\* The iteration budgets a call is explored with. Where the loop body can run
\* (two or more teams) the budget is one of 0..MaxIters; where it cannot run
\* to a second iteration the default budget of the signature is drawn too.
Budgets(lista, k) ==
    (0..MaxIters) \cup (IF Len(lista) \div k < 2 THEN {DEFAULT_MAX_ITERS} ELSE {})

InitBal ==
    /\ lista_jugadores \in Rosters
    /\ n_jugadores \in 1..MaxTeamSize
    /\ max_iters \in Budgets(lista_jugadores, n_jugadores)
    /\ num_equipos = 0
    /\ ordenados = <<>>
    /\ equipos = <<>>
    /\ equipos_sums = <<>>
    /\ reservas = <<>>
    /\ best_var = 0
    /\ gi = 0
    /\ it = 0
    /\ pc = "start"
    /\ ret = <<>>
    /\ fase1 = <<>>

\* the parts of the state a specification does not exercise
BalOff ==
    /\ lista_jugadores = <<>>
    /\ n_jugadores = 1
    /\ max_iters = 0
    /\ num_equipos = 0
    /\ ordenados = <<>>
    /\ equipos = <<>>
    /\ equipos_sums = <<>>
    /\ reservas = <<>>
    /\ best_var = 0
    /\ gi = 0
    /\ it = 0
    /\ pc = "off"
    /\ ret = <<>>
    /\ fase1 = <<>>

DbOff == db_exists = FALSE /\ db_rows = <<>> /\ db_lock = 0

UiOff == jugadores = <<>>

WritersOff == wpc = <<>> /\ wlista = <<>> /\ wi = <<>> /\ wtx = <<>>

IoOff ==
    /\ io_pc = "off"
    /\ records = <<>>
    /\ csv_exists = FALSE
    /\ mig_ret = 0
    /\ loaded = <<>>

\* The backup files are kept by the specification of the backups alone: no
\* other part of the program reads them.
BakOff == now = 0 /\ db_mtime = 0 /\ bak_files = {} /\ bak_removed = FALSE

SanOff == san_pc = "off" /\ nombre_in = <<>> /\ limpio = <<>> /\ limpio2 = <<>>

Init == InitBal /\ DbOff /\ UiOff /\ WritersOff /\ IoOff /\ BakOff /\ SanOff

\* ---------------------------------------------------------------- actions
\* lines 92-95: no team can be formed
EarlyReturn ==
    /\ pc = "start"
    /\ Len(lista_jugadores) \div n_jugadores <= 0
    /\ num_equipos' = Len(lista_jugadores) \div n_jugadores
    /\ ret' = ZeroTeamsResult(lista_jugadores)
    /\ pc' = "done"
    /\ UNCHANGED notBal
    /\ UNCHANGED <<lista_jugadores, n_jugadores, max_iters, ordenados, equipos,
                   equipos_sums, reservas, best_var, gi, it, fase1>>

\* lines 92-102: sort and set up the empty teams
SortAndSetup ==
    /\ pc = "start"
    /\ Len(lista_jugadores) \div n_jugadores > 0
    /\ num_equipos' = Len(lista_jugadores) \div n_jugadores
    /\ ordenados' = SortedByScoreDesc(lista_jugadores)
    /\ equipos' = [i \in 1..(Len(lista_jugadores) \div n_jugadores) |-> <<>>]
    /\ equipos_sums' = [i \in 1..(Len(lista_jugadores) \div n_jugadores) |-> 0]
    /\ gi' = 1
    /\ pc' = "greedy"
    /\ UNCHANGED notBal
    /\ UNCHANGED <<lista_jugadores, n_jugadores, max_iters, reservas, best_var,
                   it, ret, fase1>>

\* lines 103-107: one pass of the greedy loop
GreedyAssign ==
    /\ pc = "greedy"
    /\ gi <= num_equipos * n_jugadores
    /\ LET p == ordenados[gi]
           idx == MinIdx(candidatos(equipos, n_jugadores), equipos_sums)
       IN  /\ equipos' = [equipos EXCEPT ![idx] = Append(@, p)]
           /\ equipos_sums' = [equipos_sums EXCEPT ![idx] = @ + ScoreOf(p)]
    /\ gi' = gi + 1
    /\ UNCHANGED notBal
    /\ UNCHANGED <<lista_jugadores, n_jugadores, max_iters, num_equipos, ordenados,
                   reservas, best_var, it, pc, ret, fase1>>

\* lines 109-115: the greedy loop is over; reserves and the first best_var
EndGreedy ==
    /\ pc = "greedy"
    /\ gi > num_equipos * n_jugadores
    /\ reservas' = SubSeq(ordenados, num_equipos * n_jugadores + 1, Len(ordenados))
    /\ best_var' = variance_of_sums(equipos_sums)
    /\ fase1' = equipos
    /\ it' = 0
    /\ pc' = "refine"
    /\ UNCHANGED notBal
    /\ UNCHANGED <<lista_jugadores, n_jugadores, max_iters, num_equipos, ordenados,
                   equipos, equipos_sums, gi, ret>>

\* line 119 with a single team: random.sample(range(1), 2) raises ValueError
SampleRaises ==
    /\ pc = "refine"
    /\ InRange(it, max_iters)
    /\ num_equipos < 2
    /\ pc' = "raised"
    /\ UNCHANGED notBal
    /\ UNCHANGED <<lista_jugadores, n_jugadores, max_iters, num_equipos, ordenados,
                   equipos, equipos_sums, reservas, best_var, gi, it, ret, fase1>>

\* lines 118-137: one iteration of the refinement loop
RefineStep ==
    /\ pc = "refine"
    /\ InRange(it, max_iters)
    /\ num_equipos >= 2
    /\ it' = it + 1
    /\ \E a, b \in 1..num_equipos :
        /\ a # b
        /\ IF equipos[a] = <<>> \/ equipos[b] = <<>>
           THEN UNCHANGED <<equipos, equipos_sums, best_var>>
           ELSE \E ia \in 1..Len(equipos[a]), ib \in 1..Len(equipos[b]) :
                LET pa == equipos[a][ia]
                    pb == equipos[b][ib]
                    sa == equipos_sums[a] - ScoreOf(pa) + ScoreOf(pb)
                    sb == equipos_sums[b] - ScoreOf(pb) + ScoreOf(pa)
                    new_sums == [equipos_sums EXCEPT ![a] = sa, ![b] = sb]
                    new_var == variance_of_sums(new_sums)
                IN  IF Accept(new_var, best_var)
                    THEN /\ equipos' = SwapMembers(equipos, a, ia, b, ib)
                         /\ equipos_sums' = new_sums
                         /\ best_var' = new_var
                    ELSE UNCHANGED <<equipos, equipos_sums, best_var>>
    /\ UNCHANGED notBal
    /\ UNCHANGED <<lista_jugadores, n_jugadores, max_iters, num_equipos, ordenados,
                   reservas, gi, pc, ret, fase1>>

\* line 139: return equipos, reservas
Return ==
    /\ pc = "refine"
    /\ ~InRange(it, max_iters)
    /\ ret' = <<equipos, reservas>>
    /\ pc' = "done"
    /\ UNCHANGED notBal
    /\ UNCHANGED <<lista_jugadores, n_jugadores, max_iters, num_equipos, ordenados,
                   equipos, equipos_sums, reservas, best_var, gi, it, fase1>>

Next ==
    \/ EarlyReturn
    \/ SortAndSetup
    \/ GreedyAssign
    \/ EndGreedy
    \/ SampleRaises
    \/ RefineStep
    \/ Return

Spec == Init /\ [][Next]_vars

\* The call runs as one thread: once the roster is sorted, a pass of the
\* greedy loop, an iteration of the refinement loop or the return that can be
\* taken is taken.
SpecFair ==
    /\ Init /\ [][Next]_vars
    /\ WF_vars(GreedyAssign) /\ WF_vars(EndGreedy)
    /\ WF_vars(RefineStep) /\ WF_vars(Return)

\* ---------------------------------------------------------------- strings
\* A string is the sequence of its characters; " " is the whitespace character.
WS == {" "}

Min(a, b) == IF a <= b THEN a ELSE b

RECURSIVE LStrip(_)
LStrip(s) == IF s # <<>> /\ Head(s) \in WS THEN LStrip(Tail(s)) ELSE s

RECURSIVE RStrip(_)
RStrip(s) ==
    IF s # <<>> /\ s[Len(s)] \in WS THEN RStrip(SubSeq(s, 1, Len(s) - 1)) ELSE s

\* str.strip()
Strip(s) == RStrip(LStrip(s))

\* the index behind the first word of t (t does not start with whitespace)
WordEnd(t) ==
    IF \E i \in DOMAIN t : t[i] \in WS
    THEN CHOOSE i \in DOMAIN t : t[i] \in WS /\ \A j \in 1..(i - 1) : t[j] \notin WS
    ELSE Len(t) + 1

\* str.split(): the maximal runs of non-whitespace characters
RECURSIVE Split(_)
Split(s) ==
    LET t == LStrip(s)
    IN  IF t = <<>> THEN <<>>
        ELSE <<SubSeq(t, 1, WordEnd(t) - 1)>> \o Split(SubSeq(t, WordEnd(t), Len(t)))

\* " ".join(words)
RECURSIVE Join(_)
Join(words) ==
    IF words = <<>> THEN <<>>
    ELSE IF Len(words) = 1 THEN words[1]
    ELSE words[1] \o <<" ">> \o Join(Tail(words))

\* core.py:14-24
_sanitizar_nombre(nombre) ==
    LET s == Join(Split(Strip(nombre)))
    IN  SubSeq(s, 1, Min(NAME_MAX, Len(s)))

Lower(c) == CASE c = "A" -> "a" [] c = "B" -> "b" [] OTHER -> c

\* str.casefold()
casefold(s) == [i \in DOMAIN s |-> Lower(s[i])]

\* core.py:27-32
_jugador_existe(lista, gamertag) ==
    IF gamertag = <<>> THEN FALSE
    ELSE \E i \in DOMAIN lista : casefold(Get(lista[i], "Gamertag", <<>>)) = casefold(gamertag)

\* ---------------------------------------------------------------- players
\* A player is a dict with the keys Gamertag, Nivel, K/D and Score. K/D and
\* Score are kept in tenths, so 1.0 is 10 and 130.0 is 1300.
Player(gt, nivel, kd, score) ==
    ("Gamertag" :> gt) @@ ("Nivel" :> nivel) @@ ("K/D" :> kd) @@ ("Score" :> score)

\* round((float(kd) * 100) + (int(nivel) * 0.2), 1), in tenths
ScoreFor(nivel, kd) == kd * 100 + nivel * 2

\* ---------------------------------------------------------------- storage
\* a row of table jugadores (Gamertag TEXT PRIMARY KEY, Nivel, KD, Score)
Row(gt, nivel, kd, score) ==
    ("Gamertag" :> gt) @@ ("Nivel" :> nivel) @@ ("KD" :> kd) @@ ("Score" :> score)

\* a REPLACE whose primary key compares without regard to case
ReplaceIntoNoCase(rows, r) ==
    LET Other(x) == casefold(x["Gamertag"]) # casefold(r["Gamertag"])
    IN  Append(SelectSeq(rows, Other), r)

\* a REPLACE that empties the table before it inserts
ReplaceIntoTruncating(rows, r) == <<r>>

\* REPLACE INTO jugadores: the row of the same primary key, if any, is deleted
\* and the new row inserted (with a new rowid, so behind the others)
ReplaceInto(rows, r) ==
    LET Other(x) == x["Gamertag"] # r["Gamertag"]
    IN  Append(SelectSeq(rows, Other), r)

\* gt = str(p.get('Gamertag', '')).strip()
RowKey(p) == Strip(Get(p, "Gamertag", <<>>))

\* core_db.py:96-103, the body of the for loop for one player
SaveOne(rows, p) ==
    IF RowKey(p) = <<>> THEN rows
    ELSE ReplaceInto(rows, Row(RowKey(p), Get(p, "Nivel", 0), Get(p, "K/D", 0),
                               Get(p, "Score", 0)))

\* core_db.py:96-103, the whole for loop
RECURSIVE SaveAll(_, _)
SaveAll(rows, lista) ==
    IF lista = <<>> THEN rows ELSE SaveAll(SaveOne(rows, Head(lista)), Tail(lista))

\* core_db.py:43-61: the rows as dicts with the column KD under the key K/D
cargar_datos_db(exists, rows) ==
    IF ~exists THEN <<>>
    ELSE [i \in DOMAIN rows |->
            Player(rows[i]["Gamertag"], rows[i]["Nivel"], rows[i]["KD"], rows[i]["Score"])]

\* ------------------------------------------------------- the Streamlit UI
InputNames ==
    { <<>>, <<"a">>, <<"A">>, <<" ", "b", " ">>, <<"a", " ", " ", "b">> }

NivelInputs == {0, 150}

KDInputs == {10}

InitUI ==
    /\ jugadores = <<>>
    /\ db_exists = TRUE
    /\ db_rows = <<>>
    /\ db_lock = 0
    /\ BalOff /\ WritersOff /\ IoOff /\ BakOff /\ SanOff

\* app.py:126-171 add_player_callback, with save_players_to_db (42-43) and
\* guardar_datos_db (core_db.py:64-109)
AddPlayer ==
    /\ Len(jugadores) < MaxRoster
    /\ \E nombre \in InputNames, nivel \in NivelInputs, ratio \in KDInputs :
        LET nombre_limpio == _sanitizar_nombre(nombre)
            nuevo_jugador == Player(nombre_limpio, nivel, ratio, ScoreFor(nivel, ratio))
        IN  IF nombre_limpio = <<>>
            THEN UNCHANGED <<jugadores, dbVars>>
            ELSE IF _jugador_existe(jugadores, nombre_limpio)
            THEN UNCHANGED <<jugadores, dbVars>>
            ELSE IF ~(0 <= nivel /\ nivel <= NIVEL_MAX) \/ ~(0 <= ratio /\ ratio <= KD_MAX)
            THEN UNCHANGED <<jugadores, dbVars>>
            ELSE /\ jugadores' = Append(jugadores, nuevo_jugador)
                 /\ db_exists' = TRUE
                 /\ db_rows' = SaveAll(db_rows, Append(jugadores, nuevo_jugador))
                 /\ UNCHANGED db_lock
    /\ UNCHANGED <<balVars, sanVars, bakVars, wVars, ioVars>>

\* app.py:102-123 _save_player_from_keys for the Guardar button of row idx,
\* with save_players_to_db and guardar_datos_db
SavePlayer ==
    /\ \E idx \in DOMAIN jugadores, nombre \in InputNames,
          nivel \in NivelInputs, kd \in KDInputs :
        LET original_gt == Get(jugadores[idx], "Gamertag", <<>>)
            nombre_limpio == _sanitizar_nombre(nombre)
            hits == {i \in DOMAIN jugadores :
                        casefold(Get(jugadores[i], "Gamertag", <<>>)) = casefold(original_gt)}
            i == CHOOSE h \in hits : \A g \in hits : h <= g
            actualizado == Player(nombre_limpio, nivel, kd, ScoreFor(nivel, kd))
        IN  /\ jugadores' = [jugadores EXCEPT ![i] = actualizado]
            /\ db_exists' = TRUE
            /\ db_rows' = SaveAll(db_rows, [jugadores EXCEPT ![i] = actualizado])
            /\ UNCHANGED db_lock
    /\ UNCHANGED <<balVars, sanVars, bakVars, wVars, ioVars>>

\* app.py:211-215 the Borrar Todos button: the session roster is emptied and
\* save_players_to_db (42-43) hands the empty list to guardar_datos_db, whose
\* for loop (core_db.py:96-103) then replaces no row and whose transaction
\* deletes none
DeleteAll ==
    /\ jugadores' = <<>>
    /\ db_exists' = TRUE
    /\ db_rows' = SaveAll(db_rows, <<>>)
    /\ UNCHANGED db_lock
    /\ UNCHANGED <<balVars, sanVars, bakVars, wVars, ioVars>>

NextUI ==
    \/ AddPlayer
    \/ SavePlayer
    \/ DeleteAll

SpecUI == InitUI /\ [][NextUI]_vars

\* ------------------------------------------- concurrent guardar_datos_db
\* test_concurrency_sqlite.py: thread t saves one player with gamertag T<t>
WriterPlayer(t) == Player(<<"T", ToString(t)>>, 1, 10, 1000)

InitDB ==
    /\ db_exists = TRUE
    /\ db_rows = <<>>
    /\ db_lock = 0
    /\ wpc = [t \in 1..NumWriters |-> "init"]
    /\ wlista = [t \in 1..NumWriters |-> <<WriterPlayer(t)>>]
    /\ wi = [t \in 1..NumWriters |-> 1]
    /\ wtx = [t \in 1..NumWriters |-> <<>>]
    /\ BalOff /\ UiOff /\ IoOff /\ BakOff /\ SanOff

\* core_db.py:69 and 19-40: init_db creates the file and the table if missing
WInitDb(t) ==
    /\ wpc[t] = "init"
    /\ db_exists' = TRUE
    /\ wpc' = [wpc EXCEPT ![t] = "backup"]
    /\ UNCHANGED <<db_rows, db_lock, wlista, wi, wtx, balVars, sanVars, bakVars, uiVars, ioVars>>

\* core_db.py:71-88: the backup copy reads the file and leaves the table alone
WBackup(t) ==
    /\ wpc[t] = "backup"
    /\ wpc' = [wpc EXCEPT ![t] = "begin"]
    /\ UNCHANGED <<dbVars, wlista, wi, wtx, balVars, sanVars, bakVars, uiVars, ioVars>>

\* core_db.py:91-95: BEGIN IMMEDIATE takes the write lock
WBegin(t) ==
    /\ wpc[t] = "begin"
    /\ db_lock = 0
    /\ db_lock' = t
    /\ wtx' = [wtx EXCEPT ![t] = db_rows]
    /\ wi' = [wi EXCEPT ![t] = 1]
    /\ wpc' = [wpc EXCEPT ![t] = "replace"]
    /\ UNCHANGED <<db_exists, db_rows, wlista, balVars, sanVars, bakVars, uiVars, ioVars>>

\* core_db.py:91-95 and 105-109: the lock stays taken for the 30 s of the
\* timeout, BEGIN IMMEDIATE raises and guardar_datos_db raises in turn
WBusyTimeout(t) ==
    /\ wpc[t] = "begin"
    /\ db_lock # 0
    /\ wpc' = [wpc EXCEPT ![t] = "failed"]
    /\ UNCHANGED <<dbVars, wlista, wi, wtx, balVars, sanVars, bakVars, uiVars, ioVars>>

\* core_db.py:96-103: one pass of the for loop, inside the transaction
WReplace(t) ==
    /\ wpc[t] = "replace"
    /\ wi[t] <= Len(wlista[t])
    /\ wtx' = [wtx EXCEPT ![t] = SaveOne(wtx[t], wlista[t][wi[t]])]
    /\ wi' = [wi EXCEPT ![t] = wi[t] + 1]
    /\ UNCHANGED <<dbVars, wpc, wlista, balVars, sanVars, bakVars, uiVars, ioVars>>

\* core_db.py:104-109: commit publishes the transaction and frees the lock
WCommit(t) ==
    /\ wpc[t] = "replace"
    /\ wi[t] > Len(wlista[t])
    /\ db_rows' = wtx[t]
    /\ db_lock' = 0
    /\ wpc' = [wpc EXCEPT ![t] = "done"]
    /\ UNCHANGED <<db_exists, wlista, wi, wtx, balVars, sanVars, bakVars, uiVars, ioVars>>

NextDB ==
    \/ \E t \in DOMAIN wpc : WInitDb(t)
    \/ \E t \in DOMAIN wpc : WBackup(t)
    \/ \E t \in DOMAIN wpc : WBegin(t)
    \/ \E t \in DOMAIN wpc : WBusyTimeout(t)
    \/ \E t \in DOMAIN wpc : WReplace(t)
    \/ \E t \in DOMAIN wpc : WCommit(t)

SpecDB == InitDB /\ [][NextDB]_vars

\* ----------------------------------------- save or migrate, then load
IONames == { <<>>, <<" ">>, <<"a">>, <<"A">>, <<" ", "a">>, <<"b">> }

IONiveles == {1, 2}

IOPlayers == {Player(g, n, 10, ScoreFor(n, 10)) : g \in IONames, n \in IONiveles}

RecordLists == UNION {[1..n -> IOPlayers] : n \in 0..MaxRecords}

InitIO ==
    /\ io_pc = "start"
    /\ records \in RecordLists
    /\ csv_exists \in BOOLEAN
    /\ mig_ret = 0
    /\ loaded = <<>>
    /\ DbOff
    /\ BalOff /\ UiOff /\ WritersOff /\ BakOff /\ SanOff

\* core_db.py:64-109 guardar_datos_db(records, db_path), one caller
IOSave ==
    /\ io_pc = "start"
    /\ db_exists' = TRUE
    /\ db_rows' = SaveAll(db_rows, records)
    /\ io_pc' = "saved"
    /\ UNCHANGED <<db_lock, records, csv_exists, mig_ret, loaded, balVars, sanVars, bakVars, uiVars, wVars>>

\* core_db.py:121 and 129: pd.read_csv and to_dict; an empty Gamertag cell is
\* read as NaN, which str() turns into the text nan
ReadCsvGamertag(g) == IF g = <<>> THEN <<"n", "a", "n">> ELSE g

ReadCsv(rows) ==
    [i \in DOMAIN rows |->
        Player(ReadCsvGamertag(rows[i]["Gamertag"]), rows[i]["Nivel"], rows[i]["K/D"],
               rows[i]["Score"])]

\* core_db.py:112-131 migrate_csv_to_sqlite; records are the rows of the CSV
IOMigrate ==
    /\ io_pc = "start"
    /\ IF ~csv_exists
       THEN /\ mig_ret' = 0
            /\ UNCHANGED <<db_exists, db_rows>>
       ELSE /\ db_exists' = TRUE
            /\ db_rows' = SaveAll(db_rows, ReadCsv(records))
            /\ mig_ret' = Len(ReadCsv(records))
    /\ io_pc' = "migrated"
    /\ UNCHANGED <<db_lock, records, csv_exists, loaded, balVars, sanVars, bakVars, uiVars, wVars>>

\* core_db.py:43-61 cargar_datos_db(db_path)
IOLoad ==
    /\ io_pc \in {"saved", "migrated"}
    /\ loaded' = cargar_datos_db(db_exists, db_rows)
    /\ io_pc' = IF io_pc = "saved" THEN "saved_loaded" ELSE "migrated_loaded"
    /\ UNCHANGED <<dbVars, records, csv_exists, mig_ret, balVars, sanVars, bakVars, uiVars, wVars>>

NextIO ==
    \/ IOSave
    \/ IOMigrate
    \/ IOLoad

SpecIO == InitIO /\ [][NextIO]_vars

\* ------------------------------------------------------ the backup files
\* sequential calls of guardar_datos_db on one db_path, from a directory that
\* holds neither the database nor a backup
BakLists ==
    { <<>>,
      <<Player(<<"a">>, 1, 10, ScoreFor(1, 10))>>,
      <<Player(<<"a">>, 2, 10, ScoreFor(2, 10))>> }

InitBak ==
    /\ DbOff /\ BakOff
    /\ BalOff /\ UiOff /\ WritersOff /\ IoOff /\ SanOff

\* core_db.py:73-75: shutil.copy2(db_path, f"{db_path}.bak.{ts}") writes the
\* file of that name, over an older one of the same second, and gives it the
\* mtime of the database
CopyTo(files, name, mtime) ==
    {f \in files : f.name # name} \cup {[name |-> name, mtime |-> mtime]}

\* a rotation that removes nothing
KeepAll(files) == {files}

\* core_db.py:78-83: backups = sorted(glob.glob(pattern), key=os.path.getmtime,
\* reverse=True) and every file of backups[MAX_BACKUPS:] is removed. The sort
\* is stable over the order of glob, which is the directory's, so files of
\* equal mtime come in any order: the operator is the set of the sets of
\* files a rotation may leave.
Rotated(files) ==
    {keep \in SUBSET files :
        /\ Cardinality(keep) = Min(MAX_BACKUPS, Cardinality(files))
        /\ \A k \in keep : \A r \in files \ keep : k.mtime >= r.mtime}

\* core_db.py:64-109, one whole call: init_db creates the database if it is
\* missing (69), the backup is copied and the backups are rotated (70-88),
\* the transaction replaces the rows of the list (91-109), which writes the
\* file when the list is not empty
SaveWithBackup ==
    /\ \E lista \in BakLists :
        LET mtime0 == IF db_exists THEN db_mtime ELSE now
            copied == CopyTo(bak_files, now, mtime0)
        IN  /\ \E keep \in Rotated(copied) :
                 /\ bak_files' = keep
                 /\ bak_removed' = (bak_removed \/ keep # copied)
            /\ db_exists' = TRUE
            /\ db_rows' = SaveAll(db_rows, lista)
            /\ db_mtime' = IF lista # <<>> THEN now ELSE mtime0
    /\ UNCHANGED <<db_lock, now>>
    /\ UNCHANGED <<balVars, sanVars, uiVars, wVars, ioVars>>

\* a second goes by between two calls
Tick ==
    /\ now < MaxClock
    /\ now' = now + 1
    /\ UNCHANGED <<db_mtime, bak_files, bak_removed>>
    /\ UNCHANGED <<balVars, sanVars, dbVars, uiVars, wVars, ioVars>>

NextBak ==
    \/ SaveWithBackup
    \/ Tick

SpecBak == InitBak /\ [][NextBak]_vars

\* -------------------------------------------------- _sanitizar_nombre alone
\* n copies of the character c
Repeated(c, n) == [i \in 1..n |-> c]

\* The names given: whitespace, a first word that is short or about NAME_MAX
\* characters long, whitespace, a second word, whitespace.
FirstWordLens == (0..NearLimit) \cup ((NAME_MAX - NearLimit)..(NAME_MAX + NearLimit))

NameInputs ==
    {Repeated(" ", l) \o Repeated("a", n) \o Repeated(" ", k)
         \o Repeated("b", m) \o Repeated(" ", t) :
        l \in 0..MaxGap, n \in FirstWordLens, k \in 0..MaxGap,
        m \in 0..MaxTail, t \in 0..MaxGap}

InitSan ==
    /\ san_pc = "input"
    /\ nombre_in \in NameInputs
    /\ limpio = <<>>
    /\ limpio2 = <<>>
    /\ BalOff /\ DbOff /\ UiOff /\ WritersOff /\ IoOff /\ BakOff

\* nombre_limpio = _sanitizar_nombre(nombre), as app.py:106 and 131 call it
Sanitize ==
    /\ san_pc = "input"
    /\ limpio' = _sanitizar_nombre(nombre_in)
    /\ san_pc' = "once"
    /\ UNCHANGED <<nombre_in, limpio2>>
    /\ UNCHANGED <<balVars, dbVars, uiVars, wVars, ioVars, bakVars>>

\* the result handed to _sanitizar_nombre again, as app.py:106 does with a
\* gamertag that add_player_callback stored
SanitizeAgain ==
    /\ san_pc = "once"
    /\ limpio2' = _sanitizar_nombre(limpio)
    /\ san_pc' = "twice"
    /\ UNCHANGED <<nombre_in, limpio>>
    /\ UNCHANGED <<balVars, dbVars, uiVars, wVars, ioVars, bakVars>>

NextSan ==
    \/ Sanitize
    \/ SanitizeAgain

SpecSan == InitSan /\ [][NextSan]_vars

\* ------------------------------------------------------- balancer claims
Terminated == pc \in {"done", "raised"}

\* how often player p occurs in the sequence s
Count(p, s) == Cardinality({j \in DOMAIN s : s[j] = p})

\* teams and reserves hold every player of the roster exactly once
IsPartition(teams, res) ==
    LET flat == Flatten(teams) \o res
    IN  /\ SumSeq([i \in DOMAIN teams |-> Len(teams[i])]) + Len(res) = Len(lista_jugadores)
        /\ \A i \in DOMAIN lista_jugadores : Count(lista_jugadores[i], flat) = 1

\* the real score sum of each team, read from its members
ActualSums(eqs) ==
    [i \in DOMAIN eqs |-> SumSeq([j \in DOMAIN eqs[i] |-> ScoreOf(eqs[i][j])])]

IsSortedDesc(s) ==
    \A i \in 1..(Len(s) - 1) : ScoreOf(s[i]) >= ScoreOf(s[i + 1])

\* C1: with two or more teams, at the end of Phase 1, after every refinement
\* iteration and on return, teams and reserves partition the roster: the
\* lengths add up to len(R) and every input player occurs exactly once.
C1_Partition ==
    num_equipos >= 2 =>
        /\ pc = "refine" => IsPartition(equipos, reservas)
        /\ pc = "done" => IsPartition(ret[1], ret[2])

C1_Witness ==
    /\ pc = "done"
    /\ num_equipos >= 2
    /\ ret[1] # fase1

\* C2: whenever len(R) >= k the call returns floor(len(R)/k) teams of exactly
\* k members each, and every refinement iteration leaves every team at size k.
C2_TeamCountAndSize ==
    Len(lista_jugadores) >= n_jugadores =>
        /\ Terminated =>
            /\ pc = "done"
            /\ Len(ret[1]) = Len(lista_jugadores) \div n_jugadores
            /\ \A i \in DOMAIN ret[1] : Len(ret[1][i]) = n_jugadores
        /\ pc = "refine" => \A i \in DOMAIN equipos : Len(equipos[i]) = n_jugadores

\* C3: when exactly one team can be formed (k <= len(R) < 2k) the call with the
\* default max_iters returns normally one team of the k highest-scoring players
\* and the other len(R) - k players as reserves, the refinement being skipped.
C3_SingleTeamDefaultReturns ==
    (/\ n_jugadores <= Len(lista_jugadores)
     /\ Len(lista_jugadores) < 2 * n_jugadores
     /\ max_iters = DEFAULT_MAX_ITERS
     /\ Terminated) =>
        /\ pc = "done"
        /\ ret[1] = << SubSeq(SortedByScoreDesc(lista_jugadores), 1, n_jugadores) >>
        /\ ret[2] = SubSeq(SortedByScoreDesc(lista_jugadores), n_jugadores + 1,
                           Len(lista_jugadores))

\* C4: with fewer than k players (the empty roster included) the call returns
\* normally, never raising: no teams, and reserves holding every player of the
\* roster exactly once; for the empty roster that is ([], []).
C4_ZeroTeams ==
    (Len(lista_jugadores) < n_jugadores /\ Terminated) =>
        /\ pc = "done"
        /\ ret[1] = <<>>
        /\ Len(ret[2]) = Len(lista_jugadores)
        /\ \A i \in DOMAIN lista_jugadores : Count(lista_jugadores[i], ret[2]) = 1
        /\ lista_jugadores = <<>> => ret = << <<>>, <<>> >>

C4_Witness ==
    /\ pc = "done"
    /\ Len(lista_jugadores) < n_jugadores
    /\ Len(lista_jugadores) >= 2

\* C5: with two or more teams the population variance of the real team sums
\* never increases from one refinement iteration to the next, so the variance
\* of the returned teams is at most that of the Phase 1 assignment.
C5_VarianceNeverIncreases ==
    /\ [][(pc = "refine" /\ pc' = "refine") =>
            \/ equipos' = equipos
            \/ variance_of_sums(ActualSums(equipos'))
                   <= variance_of_sums(ActualSums(equipos))]_vars
    /\ []((pc = "done" /\ num_equipos >= 2) =>
            variance_of_sums(ActualSums(ret[1]))
                <= variance_of_sums(ActualSums(fase1)))

C5_Witness ==
    /\ pc = "done"
    /\ num_equipos >= 2
    /\ variance_of_sums(ActualSums(ret[1])) < variance_of_sums(ActualSums(fase1))

\* C6 as claimed: the returned reserve list is in descending score order
\* whether or not any team is formed.
C6_ReservesAlwaysDescending ==
    pc = "done" => IsSortedDesc(ret[2])

\* C6 as amended: when at least one team is formed the reserve list of Phase 1,
\* which is the one returned, is in descending score order; when no team is
\* formed the reserves are the roster in its input order.
C6_ReservesDescendingWhenTeams ==
    /\ (pc \in {"refine", "raised"}) => IsSortedDesc(reservas)
    /\ (pc = "done" /\ num_equipos >= 1) => IsSortedDesc(ret[2])
    /\ (pc = "done" /\ num_equipos <= 0) => ret[2] = lista_jugadores

C6_Witness ==
    /\ pc = "done"
    /\ num_equipos >= 1
    /\ Len(ret[2]) >= 2
    /\ ScoreOf(ret[2][1]) > ScoreOf(ret[2][2])
    /\ ~IsSortedDesc(lista_jugadores)

\* the position of a player in the input roster (gamertags are the positions)
InputPos(p) == CHOOSE i \in DOMAIN lista_jugadores : lista_jugadores[i] = p

\* p comes before r in the stable descending sort of the input
BeforeInSort(p, r) ==
    \/ ScoreOf(p) > ScoreOf(r)
    \/ ScoreOf(p) = ScoreOf(r) /\ InputPos(p) < InputPos(r)

\* teams eqs and reserves res cut the stable descending sort of the input at
\* position num_equipos * n_jugadores
CutOfSort(eqs, res) ==
    LET srt == SortedByScoreDesc(lista_jugadores)
        cut == num_equipos * n_jugadores
        members == Flatten(eqs)
    IN  /\ res = SubSeq(srt, cut + 1, Len(srt))
        /\ {members[i] : i \in DOMAIN members} = {srt[i] : i \in 1..cut}
        /\ \A i, j \in DOMAIN res : i < j => BeforeInSort(res[i], res[j])
        /\ \A i \in DOMAIN members : \A j \in DOMAIN res :
               /\ ScoreOf(members[i]) >= ScoreOf(res[j])
               /\ BeforeInSort(members[i], res[j])

\* C11: whenever at least one team is formed the reserves, from the end of
\* Phase 1 through every refinement iteration to the return, are exactly the
\* players behind position num_equipos * n_jugadores of the stable descending
\* sort of the input: every team member scores at least as much as every
\* reserve, a tie at the cut-off is decided for the player earlier in the
\* input, and no swap moves a player between a team and the reserves.
C11_ReservesAreSortedTail ==
    /\ (pc \in {"refine", "raised"}) => CutOfSort(equipos, reservas)
    /\ (pc = "done" /\ num_equipos >= 1) => CutOfSort(ret[1], ret[2])

C11_Witness ==
    /\ pc = "done"
    /\ num_equipos >= 2
    /\ it >= 1
    /\ ret[2] # <<>>
    /\ \E i \in DOMAIN ret[1] : \E j \in DOMAIN ret[1][i] :
           /\ ScoreOf(ret[1][i][j]) = ScoreOf(ret[2][1])
           /\ \E q \in DOMAIN lista_jugadores :
                  ScoreOf(lista_jugadores[q]) > ScoreOf(ret[2][1])
                  /\ q > InputPos(ret[1][i][j])

\* The reference procedure of Phase 1, on the real sums of the teams: the
\* players of ps one after the other, each appended to the team that has
\* fewer than k members and the least sum among those, the lowest index
\* winning a tie.
RECURSIVE GreedyRef(_, _, _)
GreedyRef(ps, n, k) ==
    IF ps = <<>> THEN [i \in 1..n |-> <<>>]
    ELSE LET prev == GreedyRef(SubSeq(ps, 1, Len(ps) - 1), n, k)
             sums == ActualSums(prev)
             open == {i \in 1..n : Len(prev[i]) < k}
             t == CHOOSE i \in open : \A j \in open :
                      sums[i] < sums[j] \/ (sums[i] = sums[j] /\ i <= j)
         IN  [prev EXCEPT ![t] = Append(@, ps[Len(ps)])]

\* C12: Phase 1 equals the reference procedure at every step of the greedy
\* loop: the teams are what the reference procedure makes of the players
\* walked so far, in descending score order, the running sums are the sums of
\* those teams, and the assignment Phase 1 ends with is the reference
\* procedure's for the first num_equipos * n_jugadores players of the sort.
C12_GreedyEqualsReference ==
    /\ pc = "greedy" =>
          /\ equipos = GreedyRef(SubSeq(SortedByScoreDesc(lista_jugadores), 1, gi - 1),
                                 num_equipos, n_jugadores)
          /\ equipos_sums = ActualSums(equipos)
    /\ (pc \in {"refine", "raised"} \/ (pc = "done" /\ num_equipos >= 1)) =>
          fase1 = GreedyRef(SubSeq(SortedByScoreDesc(lista_jugadores), 1,
                                   num_equipos * n_jugadores),
                            num_equipos, n_jugadores)

\* Phase 1 is over, a tie of sums was decided (the teams start level) and a
\* team took two players in a row because its sum stayed the least
C12_Witness ==
    /\ pc = "refine"
    /\ it = 0
    /\ num_equipos >= 2
    /\ fase1[1] # <<>>
    /\ fase1[1][1] = ordenados[1]
    /\ \E i \in DOMAIN fase1 : \E g \in 1..(Len(ordenados) - 1) :
           /\ Len(fase1[i]) >= 2
           /\ fase1[i][1] = ordenados[g]
           /\ fase1[i][2] = ordenados[g + 1]

\* the candidates of one refinement iteration: two different teams and one
\* member of each
SwapCandidates ==
    {c \in (DOMAIN equipos) \X (1..MaxTeamSize) \X (DOMAIN equipos) \X (1..MaxTeamSize) :
        /\ c[1] # c[3]
        /\ c[2] <= Len(equipos[c[1]])
        /\ c[4] <= Len(equipos[c[3]])}

\* the teams with the two members of candidate c exchanged
Exchanged(c) ==
    [i \in DOMAIN equipos |-> [j \in DOMAIN equipos[i] |->
        IF i = c[1] /\ j = c[2] THEN equipos[c[3]][c[4]]
        ELSE IF i = c[3] /\ j = c[4] THEN equipos[c[1]][c[2]]
        ELSE equipos[i][j]]]

\* the variance the teams would have with the members of c exchanged
HypotheticalVar(c) == variance_of_sums(ActualSums(Exchanged(c)))

\* C13: a refinement iteration either leaves membership, cached sums and
\* best_var as they were, or exchanges exactly the two chosen members, whose
\* hypothetical variance is strictly less than best_var and becomes the new
\* best_var, the cached sums following; the reserves never change. And in
\* every state from which an iteration can run, each candidate of strictly
\* less variance can be committed, and the iteration can leave everything
\* unchanged exactly when some candidate has equal or greater variance.
C13_CommitIffStrictlyLess ==
    /\ [][(pc = "refine" /\ it' = it + 1) =>
            /\ reservas' = reservas
            /\ \/ UNCHANGED <<equipos, equipos_sums, best_var>>
               \/ \E c \in SwapCandidates :
                     /\ equipos' = Exchanged(c)
                     /\ HypotheticalVar(c) < best_var
                     /\ best_var' = HypotheticalVar(c)
                     /\ equipos_sums' = ActualSums(Exchanged(c))]_vars
    /\ []((pc = "refine" /\ it < max_iters /\ num_equipos >= 2) =>
            /\ (ENABLED (RefineStep /\ UNCHANGED <<equipos, equipos_sums, best_var>>))
                   <=> (\E c \in SwapCandidates : HypotheticalVar(c) >= best_var)
            /\ \A c \in SwapCandidates :
                   HypotheticalVar(c) < best_var =>
                       ENABLED (RefineStep /\ equipos' = Exchanged(c)))

\* two iterations have run: one committed a swap (the teams differ from those
\* of Phase 1 by one exchange), the other refused its candidate
C13_Witness ==
    /\ pc = "refine"
    /\ it = 2
    /\ Cardinality({ij \in (DOMAIN equipos) \X (1..n_jugadores) :
                        equipos[ij[1]][ij[2]] # fase1[ij[1]][ij[2]]}) = 2
    /\ \E c \in SwapCandidates : HypotheticalVar(c) >= best_var

C15_TerminatesAfterMaxIters ==
    /\ (pc \in {"greedy", "refine"} /\ num_equipos >= 2) ~> (pc = "done")
    /\ []((pc = "done" /\ num_equipos >= 2) =>
            /\ it = max_iters
            /\ max_iters = 0 => ret[1] = fase1)
    /\ [][(pc = "refine" /\ num_equipos >= 2) =>
            \/ pc' = "refine" /\ it' = it + 1 /\ it' <= max_iters
            \/ pc' = "done" /\ it' = it /\ it = max_iters /\ ret'[1] = equipos]_vars

\* the returns of the claim: after two iterations one of which committed a
\* swap, and with max_iters = 0
C15_Witness ==
    /\ pc = "done"
    /\ num_equipos >= 2
    /\ \/ max_iters = 2 /\ ret[1] # fase1
       \/ max_iters = 0 /\ n_jugadores >= 2

\* ------------------------------------------------------------- UI claims
GamertagOf(p) == Get(p, "Gamertag", <<>>)

\* C7: after any sequence of add-player and edit-player operations from an
\* empty roster, every player of the session roster has a non-empty gamertag
\* and no two players have gamertags equal under case-insensitive comparison.
C7_GamertagsNonEmptyUnique ==
    \A i \in DOMAIN jugadores :
        /\ GamertagOf(jugadores[i]) # <<>>
        /\ \A j \in DOMAIN jugadores :
            i # j => casefold(GamertagOf(jugadores[i])) # casefold(GamertagOf(jugadores[j]))

\* C16: Borrar Todos persists the deletion: whatever the persisted roster
\* was, once the button has emptied the session roster and saved it,
\* cargar_datos_db returns no players, which is the session roster.
C16_DeleteAllPersists ==
    [][DeleteAll =>
          /\ cargar_datos_db(db_exists', db_rows') = <<>>
          /\ cargar_datos_db(db_exists', db_rows') = jugadores']_vars

\* C18: _sanitizar_nombre yields a whitespace-normalized gamertag for every
\* string: at most 48 characters, no whitespace at either end, no two
\* whitespace characters in a row; so sanitizing its result returns the
\* result unchanged.
C18_SanitizedIsNormalized ==
    /\ san_pc \in {"once", "twice"} =>
          /\ Len(limpio) <= NAME_MAX
          /\ limpio # <<>> => (limpio[1] \notin WS /\ limpio[Len(limpio)] \notin WS)
          /\ \A i \in 1..(Len(limpio) - 1) :
                 ~(limpio[i] \in WS /\ limpio[i + 1] \in WS)
    /\ san_pc = "twice" => limpio2 = limpio

AllWritersDone ==
    /\ wpc # <<>>
    /\ \A t \in DOMAIN wpc : wpc[t] = "done"

\* C8: when N threads save one player each, with pairwise distinct gamertags,
\* into the same initialised database and every one of them obtained the write
\* lock and returned, the database holds all N rows as they were saved.
C8_NoLostWrite ==
    AllWritersDone =>
        LET got == cargar_datos_db(db_exists, db_rows)
        IN  /\ Len(got) = Len(wpc)
            /\ \A t \in DOMAIN wpc : \E i \in DOMAIN got : got[i] = WriterPlayer(t)

C8_Witness ==
    /\ AllWritersDone
    /\ db_rows[1]["Gamertag"] = GamertagOf(WriterPlayer(Len(wpc)))

GamertagsOf(lista) == {GamertagOf(lista[i]) : i \in DOMAIN lista}

DistinctNonEmpty(lista) ==
    \A i \in DOMAIN lista :
        /\ GamertagOf(lista[i]) # <<>>
        /\ \A j \in DOMAIN lista : i # j => GamertagOf(lista[i]) # GamertagOf(lista[j])

StrippedDistinctNonEmpty(lista) ==
    \A i \in DOMAIN lista :
        /\ Strip(GamertagOf(lista[i])) # <<>>
        /\ \A j \in DOMAIN lista :
            i # j => Strip(GamertagOf(lista[i])) # Strip(GamertagOf(lista[j]))

\* the player as the database holds it: its gamertag stripped
Stored(p) == Player(Strip(GamertagOf(p)), p["Nivel"], p["K/D"], p["Score"])

\* C9 as claimed: saving a list of players with pairwise distinct non-empty
\* gamertags into a database that does not exist yet and loading it returns as
\* many rows as were saved, the same set of gamertags and the saved values.
C9_RoundTripDistinctNonEmpty ==
    (io_pc = "saved_loaded" /\ DistinctNonEmpty(records)) =>
        /\ Len(loaded) = Len(records)
        /\ GamertagsOf(loaded) = GamertagsOf(records)
        /\ \A i \in DOMAIN records : \E j \in DOMAIN loaded : loaded[j] = records[i]

\* C9 as amended: when the gamertags are pairwise distinct and non-empty after
\* stripping their leading and trailing whitespace, the load returns as many
\* rows as were saved, the set of the stripped gamertags and, for each, the
\* saved Nivel, K/D and Score.
C9_RoundTripStripped ==
    (io_pc = "saved_loaded" /\ StrippedDistinctNonEmpty(records)) =>
        /\ Len(loaded) = Len(records)
        /\ GamertagsOf(loaded) = {Strip(g) : g \in GamertagsOf(records)}
        /\ \A i \in DOMAIN records : \E j \in DOMAIN loaded : loaded[j] = Stored(records[i])

C9_Witness ==
    /\ io_pc = "saved_loaded"
    /\ StrippedDistinctNonEmpty(records)
    /\ \E i \in DOMAIN records : Strip(GamertagOf(records[i])) # GamertagOf(records[i])
    /\ \E i, j \in DOMAIN records :
        /\ i # j
        /\ casefold(Strip(GamertagOf(records[i]))) = casefold(Strip(GamertagOf(records[j])))
        /\ records[i]["Nivel"] # records[j]["Nivel"]

\* C10: migrate_csv_to_sqlite returns the number of rows inserted: migrating a
\* CSV into an empty database returns the number of rows cargar_datos_db then
\* finds, and 0 when the CSV file does not exist.
C10_MigrateReturnsRowsInserted ==
    io_pc = "migrated_loaded" =>
        /\ mig_ret = Len(loaded)
        /\ ~csv_exists => mig_ret = 0

====
